---- MODULE Spec2Model ----
(***************************************************************************)
(* Orchestration core of the voice assistant in src/app.py: the            *)
(* listen/classify/act loop (EnhancedSurvivalAssistant._main_loop), the    *)
(* per-command completion workers (process_command), the manual-trigger    *)
(* capture workers (manual_voice_input), the speech worker                 *)
(* (AudioManager._tts_worker), the shutdown sequence, the retry policy of  *)
(* AIInterface.generate_response, the endpointing of AudioManager.listen   *)
(* and the classification of a command by the if/elif chain of the loop.   *)
(*                                                                         *)
(* Every thread is a small program counter machine.  A step is one access  *)
(* to shared state (a flag, the speech queue, a thread's liveness); the    *)
(* flags are plain attributes, so a check and the assignment that follows  *)
(* it are two steps and other threads may run in between.                  *)
(***************************************************************************)
EXTENDS Naturals, Sequences, FiniteSets, Bags, TLC

VARIABLES
    is_listening,      \* EnhancedSurvivalAssistant.is_listening
    is_processing,     \* EnhancedSurvivalAssistant.is_processing
    stop_event,        \* EnhancedSurvivalAssistant._stop_event
    tts_stop_event,    \* AudioManager._tts_stop_event
    tts_queue,         \* AudioManager.tts_queue, a FIFO of speech items
    tts,               \* the speech worker: [pc, cur]
    put_count,         \* number of items ever put by speak (numbers the items)
    say_count,         \* number of items ever handed to the synthesis engine
    audio_open,        \* the capture stream has not been closed by cleanup_audio
    loop,              \* the orchestration loop: [pc, urgent, errors, intent,
                       \* streak]; errors is consecutive_errors, intent the
                       \* class of the utterance of this iteration, streak
                       \* the number of iterations in a row that have failed
    workers,           \* bag of per-command workers (process_in_thread)
    captures,          \* bag of manual capture workers (capture_input)
    shutdowns,         \* bag of UI shutdown threads (quit_app.shutdown_thread)
    events,            \* inputs from outside so far: utterances recognized,
                       \* manual triggers, UI shutdown requests
    dropped,           \* process_command calls that returned at the busy check
    exit_seen,         \* the loop has classified an utterance as Exit
    gen_in,            \* generate_response: the outcome of each attempt
    gen_out,           \* generate_response: what the call did and returned
    gui,               \* the UI thread in manual_voice_input: [pc, emergency, ret]
    lis,               \* one call of AudioManager.listen: its locals and result
    lis_seen,          \* what the recognizer has yielded to that call so far
    now,               \* the clock of that call, in ticks since it started
    stream,            \* AudioManager.stream as that call finds it: "active",
                       \* "inactive" (is_active() is false) or "missing" (None)
    cls_in,            \* classification: the utterance and the wake phrases
    cls_out,           \* classification: the intent
    cfg,               \* ConfigManager: DEFAULT_CONFIG as it is now, and the
                       \* last validate_config call: [defaults, calls, user,
                       \* base, result]
    clean_in,          \* _clean_response: the text it is given
    clean_out,         \* _clean_response: what it returned
    tts_failed,        \* the synthesis engine has raised in _tts_worker
    exited             \* the process has ended: [by] names what ended it

vars == <<is_listening, is_processing, stop_event, tts_stop_event, tts_queue,
          tts, put_count, say_count, audio_open, loop, workers, captures,
          shutdowns, events, dropped, exit_seen, gen_in, gen_out, gui, lis,
          lis_seen, now, cls_in, cls_out, cfg, clean_in, clean_out,
          tts_failed, exited, stream>>

genVars == <<gen_in, gen_out>>

listenVars == <<lis, lis_seen, now, stream>>

clsVars == <<cls_in, cls_out>>

unitVars == <<cfg, clean_in, clean_out>>

procVars == <<tts_failed, exited>>

----------------------------------------------------------------------------
(* Bounds of the model. *)

\* the longest text given to _clean_response, in characters
MaxChars == 4

\* the number of validate_config calls looked at
MaxMerges == 2

\* inputs from outside over a run: utterances the recognizer yields (to the
\* loop, the follow-up or a capture worker), presses of a manual-input
\* button of the UI, UI shutdown requests
MaxEvents == 3

(* Program constants. *)

\* max_retries in generate_response
max_retries == 3
\* max_errors in _main_loop
max_errors == 5

----------------------------------------------------------------------------
(* Utterances and their classification.  An utterance is abstracted to the *)
(* keyword lists it has a member of: the wake phrases, the emergency       *)
(* words, the question words, the exit words.                              *)

KeywordLists == {"wake", "emergency", "question", "exit"}

Utterances == SUBSET KeywordLists

\* a chain that tests the exit words before the wake phrases
ClassifyExitFirst(u) ==
    IF "exit" \in u THEN "Exit"
    ELSE IF "wake" \in u THEN "WakeWord"
    ELSE IF "emergency" \in u THEN "Emergency"
    ELSE IF "question" \in u THEN "Question"
    ELSE "Unclassified"

\* the if/elif chain of _main_loop, first match wins
Classify(u) ==
    IF "wake" \in u THEN "WakeWord"
    ELSE IF "emergency" \in u THEN "Emergency"
    ELSE IF "question" \in u THEN "Question"
    ELSE IF "exit" \in u THEN "Exit"
    ELSE "Unclassified"

\* A command is the sequence of its words, a phrase too; the operator in of
\* two strings is containment of the phrase as a run of the command.
Contains(command, phrase) ==
    \E i \in 0..(Len(command) - Len(phrase)) :
        \A j \in 1..Len(phrase) : command[i + j] = phrase[j]

\* the longest command of the model, in words
MaxWords == 3

Words ==
    {"survival", "assistant", "me", "please",
     "emergency", "urgent", "help", "danger",
     "how", "what", "when", "where", "why",
     "exit", "quit", "stop", "shutdown"}

\* what listen can return to the loop: a non-empty text
Commands == UNION {[1..n -> Words] : n \in 1..MaxWords}

\* DEFAULT_CONFIG["wake_words"]
DefaultWakeWords ==
    {<<"survival", "assistant">>, <<"emergency", "help">>, <<"assistant">>,
     <<"help", "me">>}

\* the wake phrases a configuration file can set
WakeConfigs == {DefaultWakeWords, {<<"help", "me">>}}

\* the word lists of the elif branches
EmergencyWords == {<<"emergency">>, <<"urgent">>, <<"help">>, <<"danger">>}

QuestionWords == {<<"how">>, <<"what">>, <<"when">>, <<"where">>, <<"why">>}

ExitWords == {<<"exit">>, <<"quit">>, <<"stop">>, <<"shutdown">>}

\* any(word in command for word in words)
AnyOf(command, words) == \E word \in words : Contains(command, word)

\* the keyword lists the command has a member of
Matched(command, wake_words) ==
    {k \in KeywordLists :
        \/ k = "wake" /\ AnyOf(command, wake_words)
        \/ k = "emergency" /\ AnyOf(command, EmergencyWords)
        \/ k = "question" /\ AnyOf(command, QuestionWords)
        \/ k = "exit" /\ AnyOf(command, ExitWords)}

----------------------------------------------------------------------------
(* The completion call.  Each attempt has one outcome; the call is the     *)
(* for loop of generate_response run over the outcomes of its attempts.    *)

Outcomes == {"ok", "empty", "notfound", "status", "timeout", "error"}

AttemptOutcomes == [1..max_retries -> Outcomes]

NoCall == [result |-> "pending", trace |-> <<>>]

RECURSIVE AttemptsPauseAfterLast(_, _, _)
\* generate_response with the pause taken after every timeout, the last too
AttemptsPauseAfterLast(outs, attempt, trace) ==
    IF attempt >= max_retries
    THEN [result |-> "none", trace |-> trace]
    ELSE LET o == outs[attempt + 1]
             t == Append(trace, "request")
         IN  CASE o = "ok"       -> [result |-> "text", trace |-> t]
               [] o = "empty"    -> AttemptsPauseAfterLast(outs, attempt + 1, t)
               [] o = "notfound" -> [result |-> "none", trace |-> t]
               [] o = "status"   -> AttemptsPauseAfterLast(outs, attempt + 1, t)
               [] o = "timeout"  ->
                    AttemptsPauseAfterLast(outs, attempt + 1, Append(t, "sleep"))
               [] OTHER          -> [result |-> "none", trace |-> t]

RECURSIVE AttemptsRetryNotFound(_, _, _)
\* generate_response with status 404 handled like any other failed status
AttemptsRetryNotFound(outs, attempt, trace) ==
    IF attempt >= max_retries
    THEN [result |-> "none", trace |-> trace]
    ELSE LET o == outs[attempt + 1]
             t == Append(trace, "request")
         IN  CASE o = "ok"       -> [result |-> "text", trace |-> t]
               [] o = "empty"    -> AttemptsRetryNotFound(outs, attempt + 1, t)
               [] o = "notfound" -> AttemptsRetryNotFound(outs, attempt + 1, t)
               [] o = "status"   -> AttemptsRetryNotFound(outs, attempt + 1, t)
               [] o = "timeout"  ->
                    IF attempt < max_retries - 1
                    THEN AttemptsRetryNotFound(outs, attempt + 1, Append(t, "sleep"))
                    ELSE AttemptsRetryNotFound(outs, attempt + 1, t)
               [] OTHER          -> [result |-> "none", trace |-> t]

RECURSIVE AttemptsStatusEnds(_, _, _)
\* generate_response with every failed status ending the call, as 404 does
AttemptsStatusEnds(outs, attempt, trace) ==
    IF attempt >= max_retries
    THEN [result |-> "none", trace |-> trace]
    ELSE LET o == outs[attempt + 1]
             t == Append(trace, "request")
         IN  CASE o = "ok"       -> [result |-> "text", trace |-> t]
               [] o = "empty"    -> AttemptsStatusEnds(outs, attempt + 1, t)
               [] o = "notfound" -> [result |-> "none", trace |-> t]
               [] o = "status"   -> [result |-> "none", trace |-> t]
               [] o = "timeout"  ->
                    IF attempt < max_retries - 1
                    THEN AttemptsStatusEnds(outs, attempt + 1, Append(t, "sleep"))
                    ELSE AttemptsStatusEnds(outs, attempt + 1, t)
               [] OTHER          -> [result |-> "none", trace |-> t]

RECURSIVE Attempts(_, _, _)
\* attempt is the 0-based loop index; trace lists the requests and pauses
Attempts(outs, attempt, trace) ==
    IF attempt >= max_retries
    THEN [result |-> "none", trace |-> trace]
    ELSE LET o == outs[attempt + 1]
             t == Append(trace, "request")
         IN  CASE o = "ok"       -> [result |-> "text", trace |-> t]
               [] o = "empty"    -> Attempts(outs, attempt + 1, t)
               [] o = "notfound" -> [result |-> "none", trace |-> t]
               [] o = "status"   -> Attempts(outs, attempt + 1, t)
               [] o = "timeout"  ->
                    IF attempt < max_retries - 1
                    THEN Attempts(outs, attempt + 1, Append(t, "sleep"))
                    ELSE Attempts(outs, attempt + 1, t)
               [] OTHER          -> [result |-> "none", trace |-> t]

generate_response(outs) == Attempts(outs, 0, <<>>)

\* what a completion call can return to its caller
CompletionResults == {generate_response(outs).result : outs \in AttemptOutcomes}

----------------------------------------------------------------------------
(* The speech queue. *)

\* the shutdown sentinel (None in the source)
Sentinel == [id |-> 0, text |-> "None"]

\* AudioManager.speak: put the text unless the stop event is set
Speak(text) ==
    IF tts_stop_event
    THEN UNCHANGED <<tts_queue, put_count>>
    ELSE /\ tts_queue' = Append(tts_queue, [id |-> put_count + 1, text |-> text])
         /\ put_count' = put_count + 1

\* a queue that hands out its newest item
QueueGetNewest(q) == q[Len(q)]

\* Queue.get: the item the worker takes
QueueGet(q) == Head(q)

\* Queue.get: what is left
QueueRest(q) == Tail(q)

----------------------------------------------------------------------------
(* AudioManager.listen.  A text is a sequence of characters.  Time is in   *)
(* ticks of half a second, counted from the start of the call              *)
(* (start_time); the clock may advance while the call waits for a frame.   *)

\* min_speech_duration = 0.5, in ticks
min_speech_duration == 1
\* the 2 of time.time() - silence_start > 2, in ticks
silence_limit == 4
\* the timeout=5 of the loop's call of listen, in ticks
timeout == 10

RECURSIVE LStrip(_)
\* the text without its leading blanks
LStrip(text) ==
    IF text # <<>> /\ Head(text) = " " THEN LStrip(Tail(text)) ELSE text

RECURSIVE RStrip(_)
\* the text without its trailing blanks
RStrip(text) ==
    IF text # <<>> /\ text[Len(text)] = " "
    THEN RStrip(SubSeq(text, 1, Len(text) - 1))
    ELSE text

\* str.strip
Strip(text) == RStrip(LStrip(text))

\* str.lower on one character
LowerChar(c) ==
    CASE c = "G" -> "g"
      [] c = "O" -> "o"
      [] OTHER   -> c

\* str.lower
Lower(text) == [i \in DOMAIN text |-> LowerChar(text[i])]

\* what the recognizer's Result() can hold under "text"
FinalTexts == {<<>>, <<" ">>, <<"g", "o">>, <<" ", "G", "o", " ">>}

\* what the recognizer's PartialResult() can hold under "partial"
PartialTexts == {<<>>, <<"g">>, <<"G", "o">>}

\* one pass of the while loop gets a frame the recognizer takes as the end
\* of an utterance, a frame it takes as part of one, or no frame because
\* stream.read raised
Frames ==
    [kind : {"final"}, text : FinalTexts]
    \cup [kind : {"partial"}, text : PartialTexts]
    \cup [kind : {"fail"}, text : {<<>>}]

NoFrame == [kind |-> "none", text |-> <<>>]

\* the value None
None == [some |-> FALSE, text |-> <<>>]

\* a string value
Some(text) == [some |-> TRUE, text |-> text]

\* the locals of listen after start_time, result_text, last_partial and
\* silence_start have been set; line is the line of the return statement taken
ListenStart ==
    [pc |-> "while", result_text |-> <<>>, last_partial |-> <<>>,
     silence_set |-> FALSE, silence_start |-> 0, ret |-> None, line |-> 0]

\* return value: the call ends at the return statement of this line
Return(l, value, line) ==
    [l EXCEPT !.pc = "returned", !.ret = value, !.line = line]

\* a read that ends the call
OnFailReturn(l) == Return(l, None, 235)

\* except Exception: log and continue
OnFail(l) == [l EXCEPT !.pc = "while"]

\* a final result that is kept until the timeout instead of returned
OnFinalKeepsWaiting(l, text, t) ==
    [l EXCEPT !.pc = "while", !.result_text = Strip(text)]

\* AcceptWaveform(data) is true: the final result, at elapsed time t
OnFinal(l, text, t) ==
    LET result_text == Strip(text)
    IN  IF result_text # <<>> /\ t > min_speech_duration
        THEN Return([l EXCEPT !.result_text = result_text], Some(Lower(result_text)), 217)
        ELSE [l EXCEPT !.pc = "while", !.result_text = result_text]

\* AcceptWaveform(data) is false: the partial result, at elapsed time t.
\* last_partial is assigned before the branch that starts the silence timer
\* reads it.
OnPartial(l, text, t) ==
    LET changed == text # l.last_partial
        last_partial == IF changed THEN text ELSE l.last_partial
        starts == changed /\ text = <<>> /\ ~l.silence_set /\ last_partial # <<>>
        silence_set ==
            IF changed /\ text # <<>> THEN FALSE
            ELSE IF starts THEN TRUE
            ELSE l.silence_set
        silence_start == IF starts THEN t ELSE l.silence_start
        m == [l EXCEPT !.pc = "while", !.last_partial = last_partial,
                       !.silence_set = silence_set,
                       !.silence_start = silence_start]
    IN  IF silence_set /\ t - silence_start > silence_limit /\ last_partial # <<>>
        THEN Return(m, Some(Lower(last_partial)), 233)
        ELSE m

\* the body of the while loop for one frame
OnFrame(l, f, t) ==
    CASE f.kind = "final"   -> OnFinal(l, f.text, t)
      [] f.kind = "partial" -> OnPartial(l, f.text, t)
      [] OTHER              -> OnFail(l)

\* return result_text.lower() if result_text else None
AtTimeout(l) ==
    Return(l, IF l.result_text # <<>> THEN Some(Lower(l.result_text)) ELSE None, 238)

\* what the call has been given so far: the frame of the last pass and when
\* it was handled (at), the last non-empty partial (heard) and since when
\* the partial has been empty after it (quiet), the last non-empty text of
\* a final or partial result (best), whether a read has failed (failed)
SeenNothing ==
    [frame |-> NoFrame, at |-> 0, heard |-> <<>>, quiet_set |-> FALSE,
     quiet_at |-> 0, best |-> <<>>, failed |-> FALSE]

Seen(h, f, t) ==
    LET k == [h EXCEPT !.frame = f, !.at = t]
    IN  CASE f.kind = "final" ->
               [k EXCEPT !.heard = <<>>, !.quiet_set = FALSE,
                         !.best = IF Strip(f.text) # <<>> THEN Strip(f.text) ELSE @]
          [] f.kind = "partial" /\ f.text # <<>> ->
               [k EXCEPT !.heard = f.text, !.quiet_set = FALSE, !.best = f.text]
          [] f.kind = "partial" /\ f.text = <<>> ->
               IF h.heard # <<>> /\ ~h.quiet_set
               THEN [k EXCEPT !.quiet_set = TRUE, !.quiet_at = t]
               ELSE k
          [] OTHER -> [k EXCEPT !.failed = TRUE]

\* the UI thread is not inside manual_voice_input
GuiIdle(ret) == [pc |-> "idle", emergency |-> FALSE, ret |-> ret]

----------------------------------------------------------------------------
(* ConfigManager.validate_config.  A configuration is a dictionary: a      *)
(* function from keys to values, a value being a scalar or a dictionary.   *)
(* DEFAULT_CONFIG is a module-level object; validate_config copies its top *)
(* level only, so the nested dictionaries of the copy are the nested       *)
(* dictionaries of DEFAULT_CONFIG itself.                                  *)

Scalar(v) == [dict |-> FALSE, v |-> v, items |-> <<>>]

Dict(items) == [dict |-> TRUE, v |-> "", items |-> items]

\* the settings kept of DEFAULT_CONFIG: one scalar, one nested dictionary
DEFAULT_CONFIG ==
    [key \in {"model_name", "tts_settings"} |->
        IF key = "model_name"
        THEN Scalar("default")
        ELSE Dict([k \in {"rate", "volume"} |-> Scalar("default")])]

\* the dictionaries with keys among keys and values among values
DictsOver(keys, values) == UNION {[d -> values] : d \in SUBSET keys}

\* the values a configuration file can give to a setting
UserValues == {"user", "other"}

\* the configuration files read: any of the scalar settings may be absent,
\* tts_settings may be absent, a scalar, or a dictionary with any of its
\* keys absent; extra is a key the defaults do not have
UserConfigs ==
    LET nested == {Dict(d) : d \in DictsOver({"rate", "volume"},
                                             {Scalar(v) : v \in UserValues})}
        top(key) == IF key = "tts_settings"
                    THEN nested \cup {Scalar("user")}
                    ELSE {Scalar("user")}
    IN  UNION {{c \in [d -> nested \cup {Scalar("user")}] :
                    \A key \in d : c[key] \in top(key)} :
               d \in SUBSET {"model_name", "tts_settings", "extra"}}

\* deep_update that assigns at every key and never descends
deep_update_flat(base, update) ==
    [key \in DOMAIN base \cup DOMAIN update |->
        IF key \in DOMAIN update THEN update[key] ELSE base[key]]

RECURSIVE deep_update(_, _)
\* base after deep_update(base, update)
deep_update(base, update) ==
    [key \in DOMAIN base \cup DOMAIN update |->
        IF key \in DOMAIN update
        THEN IF key \in DOMAIN base /\ base[key].dict /\ update[key].dict
             THEN Dict(deep_update(base[key].items, update[key].items))
             ELSE update[key]
        ELSE base[key]]

\* DEFAULT_CONFIG after validate_config(config): its top level is untouched
\* (the assignments go to the copy), its nested dictionaries are the ones
\* deep_update descended into
SharedAfter(defaults, config) ==
    [key \in DOMAIN defaults |->
        IF key \in DOMAIN config /\ defaults[key].dict /\ config[key].dict
        THEN Dict(deep_update(defaults[key].items, config[key].items))
        ELSE defaults[key]]

\* no validate_config call has been made
NoMerge ==
    [defaults |-> DEFAULT_CONFIG, calls |-> 0, user |-> <<>>,
     base |-> <<>>, result |-> <<>>]

----------------------------------------------------------------------------
(* AIInterface._clean_response.  A text is a sequence of characters;      *)
(* str.replace scans from the left and replaces the occurrences that do    *)
(* not overlap, in one pass.                                               *)

\* the line feed character
NewLine == "LF"

\* the backquote character
Backquote == "BQ"

Chars == {"*", "#", Backquote, NewLine, ".", " ", "a"}

Texts == UNION {[1..n -> Chars] : n \in 0..MaxChars}

RECURSIVE Replace(_, _, _)
\* str.replace(old, new), old not empty
Replace(text, old, new) ==
    IF Len(text) < Len(old)
    THEN text
    ELSE IF SubSeq(text, 1, Len(old)) = old
         THEN new \o Replace(SubSeq(text, Len(old) + 1, Len(text)), old, new)
         ELSE <<Head(text)>> \o Replace(Tail(text), old, new)

_clean_response(text) ==
    LET t1 == Replace(text, <<"*", "*">>, <<>>)
        t2 == Replace(t1, <<"*">>, <<>>)
        t3 == Replace(t2, <<"#">>, <<>>)
        t4 == Replace(t3, <<Backquote, Backquote, Backquote>>, <<>>)
        t5 == Replace(t4, <<NewLine, NewLine>>, <<".", " ">>)
        t6 == Replace(t5, <<NewLine>>, <<".", " ">>)
        t7 == Replace(t6, <<".", ".">>, <<".">>)
        t8 == Replace(t7, <<" ", " ">>, <<" ">>)
    IN  Strip(t8)

\* _clean_response has not been called
NotCleaned == <<"pending">>

----------------------------------------------------------------------------
(* Initial state: the assistant has been constructed and start() has run   *)
(* with a working capture stream and synthesis engine: the welcome message *)
(* is queued, the loop thread and the speech worker are at the top of      *)
(* their loops.                                                            *)

Add(bag, e) == bag (+) SetToBag({e})

\* the process is running
NotExited == [by |-> "none"]

Remove(bag, e) == bag (-) SetToBag({e})

InitAssistant ==
    /\ is_listening = FALSE
    /\ is_processing = FALSE
    /\ stop_event = FALSE
    /\ tts_stop_event = FALSE
    /\ tts_queue = <<[id |-> 1, text |-> "welcome"]>>
    /\ tts = [pc |-> "while", cur |-> Sentinel]
    /\ put_count = 1
    /\ say_count = 0
    /\ audio_open = TRUE
    /\ loop = [pc |-> "while", urgent |-> FALSE, errors |-> 0,
               intent |-> "none", streak |-> 0]
    /\ workers = EmptyBag
    /\ captures = EmptyBag
    /\ shutdowns = EmptyBag
    /\ events = 0
    /\ dropped = 0
    /\ exit_seen = FALSE
    /\ gui = GuiIdle("none")
    /\ tts_failed = FALSE
    /\ exited = NotExited

\* no completion call is looked at on its own
InitNoGen ==
    /\ gen_in = [i \in 1..max_retries |-> "ok"]
    /\ gen_out = NoCall

\* no call of listen is looked at on its own
InitNoListen ==
    /\ lis = ListenStart
    /\ lis_seen = SeenNothing
    /\ now = 0
    /\ stream = "active"

\* no classification is looked at on its own
InitNoCls ==
    /\ cls_in = [command |-> <<"please">>, wake_words |-> DefaultWakeWords]
    /\ cls_out = "pending"

\* no merge and no cleaning is looked at on its own
InitNoUnits ==
    /\ cfg = NoMerge
    /\ clean_in = <<>>
    /\ clean_out = NotCleaned

Init ==
    /\ InitAssistant
    /\ InitNoGen
    /\ InitNoListen
    /\ InitNoCls
    /\ InitNoUnits

\* the recognizer can still yield an utterance to a listen call
CanHear == events < MaxEvents /\ audio_open

----------------------------------------------------------------------------
(* The speech worker, AudioManager._tts_worker. *)

\* while not self._tts_stop_event.is_set()
TtsWhile ==
    /\ tts.pc = "while"
    /\ tts' = [tts EXCEPT !.pc = IF tts_stop_event THEN "exited" ELSE "get"]
    /\ UNCHANGED <<is_listening, is_processing, stop_event, tts_stop_event,
                   tts_queue, put_count, say_count, audio_open, loop, workers,
                   captures, shutdowns, events, dropped,
                   exit_seen, genVars, listenVars, clsVars, unitVars,
                  procVars, gui>>

\* text = self.tts_queue.get(timeout=1); None breaks, queue.Empty continues
TtsGet ==
    /\ tts.pc = "get"
    /\ IF tts_queue = <<>>
       THEN /\ tts' = [tts EXCEPT !.pc = "while"]
            /\ UNCHANGED <<tts_queue, say_count>>
       ELSE LET text == QueueGet(tts_queue)
            IN  /\ tts_queue' = QueueRest(tts_queue)
                /\ IF text = Sentinel
                   THEN /\ tts' = [tts EXCEPT !.pc = "exited"]
                        /\ UNCHANGED say_count
                   ELSE /\ tts' = [pc |-> "say", cur |-> text]
                        /\ say_count' = say_count + 1
    /\ UNCHANGED <<is_listening, is_processing, stop_event, tts_stop_event,
                   put_count, audio_open, loop, workers, captures, shutdowns,
                   events, dropped, exit_seen, genVars, listenVars, clsVars, unitVars,
                  procVars, gui>>

\* say(text); runAndWait() returns or raises: both go round the loop
TtsSay ==
    /\ tts.pc = "say"
    /\ tts' = [pc |-> "while", cur |-> Sentinel]
    /\ UNCHANGED <<is_listening, is_processing, stop_event, tts_stop_event,
                   tts_queue, put_count, say_count, audio_open, loop, workers,
                   captures, shutdowns, events, dropped,
                   exit_seen, genVars, listenVars, clsVars, unitVars,
                  procVars, gui>>

TtsNext == TtsWhile \/ TtsGet \/ TtsSay

----------------------------------------------------------------------------
(* process_command, run by the loop thread or by a capture worker. *)

\* if self.is_processing: return
ProcessCommandBusy == is_processing

\* self.is_processing = True; threading.Thread(target=process_in_thread).start()
StartWorker(urgent) ==
    /\ is_processing' = TRUE
    /\ workers' = Add(workers, [pc |-> "consult", urgent |-> urgent])

\* process_in_thread speaking the response whatever generate_response gave
ResponseTextNoApology(result, urgent) == "response"

\* the message process_in_thread speaks for a result of generate_response
ResponseText(result, urgent) ==
    IF result = "text" THEN "response"
    ELSE IF urgent THEN "apology_emergency" ELSE "apology"

\* response = generate_response(command, emergency); self.speak(...)
WorkerRespond(w, result) ==
    /\ BagIn(w, workers)
    /\ w.pc = "consult"
    /\ Speak(ResponseText(result, w.urgent))
    /\ workers' = Add(Remove(workers, w), [w EXCEPT !.pc = "finally"])
    /\ UNCHANGED <<is_listening, is_processing, stop_event, tts_stop_event,
                   tts, say_count, audio_open, loop, captures, shutdowns,
                   events, dropped, exit_seen, genVars, listenVars, clsVars, unitVars,
                  procVars, gui>>

\* a worker that ends without clearing the flag
WorkerEndsBusy(w) ==
    /\ BagIn(w, workers)
    /\ w.pc = "finally"
    /\ workers' = Remove(workers, w)
    /\ UNCHANGED <<is_listening, is_processing, stop_event, tts_stop_event,
                   tts_queue, tts, put_count, say_count, audio_open, loop,
                   captures, shutdowns, events, dropped, exit_seen, genVars, listenVars, clsVars, unitVars,
                  procVars, gui>>

\* finally: self.is_processing = False
WorkerFinally(w) ==
    /\ BagIn(w, workers)
    /\ w.pc = "finally"
    /\ is_processing' = FALSE
    /\ workers' = Remove(workers, w)
    /\ UNCHANGED <<is_listening, stop_event, tts_stop_event, tts_queue, tts,
                   put_count, say_count, audio_open, loop, captures,
                   shutdowns, events, dropped, exit_seen,
                   genVars, listenVars, clsVars, unitVars, procVars, gui>>

WorkerNext ==
    \E w \in BagToSet(workers) :
        \/ \E result \in CompletionResults : WorkerRespond(w, result)
        \/ WorkerFinally(w)

----------------------------------------------------------------------------
(* The orchestration loop, EnhancedSurvivalAssistant._main_loop. *)

\* the iteration has run to its end without an exception: the run of
\* failed iterations (streak) is over, the loop is back at the top
EndIteration == [loop EXCEPT !.pc = "while", !.streak = 0]

\* except Exception: count it, end the loop with the fatal notice at
\* max_errors, else pause one second and go round
LoopExcept ==
    /\ IF loop.errors + 1 >= max_errors
       THEN /\ Speak("fatal")
            /\ loop' = [loop EXCEPT !.pc = "done", !.errors = @ + 1,
                                    !.streak = @ + 1]
       ELSE /\ UNCHANGED <<tts_queue, put_count>>
            /\ loop' = [loop EXCEPT !.pc = "while", !.errors = @ + 1,
                                    !.streak = @ + 1]

\* while not self._stop_event.is_set(): if self.is_processing:
\* time.sleep(0.1); continue.  The back-pressure branch comes round to the
\* same place.
LoopWhile ==
    /\ loop.pc = "while"
    /\ loop' = IF stop_event THEN [loop EXCEPT !.pc = "done", !.intent = "none"]
               ELSE IF is_processing THEN loop
               ELSE [loop EXCEPT !.pc = "begin", !.intent = "none"]
    /\ UNCHANGED <<is_listening, is_processing, stop_event, tts_stop_event,
                   tts_queue, tts, put_count, say_count, audio_open, workers,
                   captures, shutdowns, events, dropped,
                   exit_seen, genVars, listenVars, clsVars, unitVars,
                  procVars, gui>>

\* self.is_listening = True, then the call of audio_manager.listen(timeout=5)
LoopBegin ==
    /\ loop.pc = "begin"
    /\ is_listening' = TRUE
    /\ loop' = [loop EXCEPT !.pc = "listen"]
    /\ UNCHANGED <<is_processing, stop_event, tts_stop_event, tts_queue, tts,
                   put_count, say_count, audio_open, workers, captures,
                   shutdowns, events, dropped, exit_seen,
                   genVars, listenVars, clsVars, unitVars, procVars, gui>>

\* listen returned None: self.is_listening = False, next iteration
LoopListenNone ==
    /\ loop.pc = "listen"
    /\ is_listening' = FALSE
    /\ loop' = EndIteration
    /\ UNCHANGED <<is_processing, stop_event, tts_stop_event, tts_queue, tts,
                   put_count, say_count, audio_open, workers, captures,
                   shutdowns, events, dropped, exit_seen,
                   genVars, listenVars, clsVars, unitVars, procVars, gui>>

\* a chain whose last branch passes every other utterance on as a question
DispatchAll(intent) ==
    CASE intent = "WakeWord"  -> "wake"
      [] intent = "Exit"      -> "exit"
      [] OTHER                -> "pcmd"

\* where the if/elif chain sends the loop for an intent
Dispatch(intent) ==
    CASE intent = "WakeWord"  -> "wake"
      [] intent = "Emergency" -> "pcmd"
      [] intent = "Question"  -> "pcmd"
      [] intent = "Exit"      -> "exit"
      [] OTHER                -> "while"

\* listen returned a command: self.is_listening = False,
\* consecutive_errors = 0, and the if/elif chain picks the branch
LoopListenCommand(u) ==
    /\ loop.pc = "listen"
    /\ CanHear
    /\ events' = events + 1
    /\ is_listening' = FALSE
    /\ loop' = [pc |-> Dispatch(Classify(u)),
                urgent |-> (Classify(u) = "Emergency"),
                errors |-> 0,
                intent |-> Classify(u),
                streak |-> IF Dispatch(Classify(u)) = "while" THEN 0 ELSE loop.streak]
    /\ exit_seen' = (exit_seen \/ Classify(u) = "Exit")
    /\ UNCHANGED <<is_processing, stop_event, tts_stop_event, tts_queue, tts,
                   put_count, say_count, audio_open, workers, captures,
                   shutdowns, dropped, genVars, listenVars, clsVars, unitVars,
                  procVars, gui>>

\* handle_wake_word_activation: speak the acknowledgement, then listen
LoopWake ==
    /\ loop.pc = "wake"
    /\ Speak("ack")
    /\ loop' = [loop EXCEPT !.pc = "wakeListen"]
    /\ UNCHANGED <<is_listening, is_processing, stop_event, tts_stop_event,
                   tts, say_count, audio_open, workers, captures, shutdowns,
                   events, dropped, exit_seen, genVars, listenVars, clsVars, unitVars,
                  procVars, gui>>

\* the follow-up listen returned text: process_command(follow_up, True)
LoopWakeCommand ==
    /\ loop.pc = "wakeListen"
    /\ CanHear
    /\ events' = events + 1
    /\ loop' = [loop EXCEPT !.pc = "pcmd", !.urgent = TRUE]
    /\ UNCHANGED <<is_listening, is_processing, stop_event, tts_stop_event,
                   tts_queue, tts, put_count, say_count, audio_open, workers,
                   captures, shutdowns, dropped, exit_seen,
                   genVars, listenVars, clsVars, unitVars, procVars, gui>>

\* the follow-up listen returned None: speak "I didn't catch that"
LoopWakeNone ==
    /\ loop.pc = "wakeListen"
    /\ Speak("nocatch")
    /\ loop' = EndIteration
    /\ UNCHANGED <<is_listening, is_processing, stop_event, tts_stop_event,
                   tts, say_count, audio_open, workers, captures, shutdowns,
                   events, dropped, exit_seen, genVars, listenVars, clsVars, unitVars,
                  procVars, gui>>

\* process_command, the busy check: return, or go on to start the worker
LoopProcessCommand ==
    /\ loop.pc = "pcmd"
    /\ IF ProcessCommandBusy
       THEN /\ dropped' = dropped + 1
            /\ loop' = EndIteration
       ELSE /\ UNCHANGED dropped
            /\ loop' = [loop EXCEPT !.pc = "pcmdStart"]
    /\ UNCHANGED <<is_listening, is_processing, stop_event, tts_stop_event,
                   tts_queue, tts, put_count, say_count, audio_open, workers,
                   captures, shutdowns, events, exit_seen,
                   genVars, listenVars, clsVars, unitVars, procVars, gui>>

\* process_command, past the check: set the flag and start the worker
LoopStartWorker ==
    /\ loop.pc = "pcmdStart"
    /\ StartWorker(loop.urgent)
    /\ loop' = EndIteration
    /\ UNCHANGED <<is_listening, stop_event, tts_stop_event, tts_queue, tts,
                   put_count, say_count, audio_open, captures, shutdowns,
                   events, dropped, exit_seen, genVars, listenVars, clsVars, unitVars,
                  procVars, gui>>

\* Exit: self.shutdown() on the loop thread, self._stop_event.set()
LoopExitStop ==
    /\ loop.pc = "exit"
    /\ stop_event' = TRUE
    /\ loop' = [loop EXCEPT !.pc = "exitSpeak"]
    /\ UNCHANGED <<is_listening, is_processing, tts_stop_event, tts_queue,
                   tts, put_count, say_count, audio_open, workers, captures,
                   shutdowns, events, dropped, exit_seen,
                   genVars, listenVars, clsVars, unitVars, procVars, gui>>

\* shutdown() on the loop thread: self.speak(farewell)
LoopExitSpeak ==
    /\ loop.pc = "exitSpeak"
    /\ Speak("farewell")
    /\ loop' = [loop EXCEPT !.pc = "exitJoin"]
    /\ UNCHANGED <<is_listening, is_processing, stop_event, tts_stop_event,
                   tts, say_count, audio_open, workers, captures, shutdowns,
                   events, dropped, exit_seen, genVars, listenVars, clsVars, unitVars,
                  procVars, gui>>

\* shutdown() on the loop thread: main_thread.is_alive() holds and
\* main_thread.join() is a join of the current thread, which raises
\* RuntimeError; the except branch of the loop catches it and
\* audio_manager.shutdown() is not reached
LoopExitJoin ==
    /\ loop.pc = "exitJoin"
    /\ LoopExcept
    /\ UNCHANGED <<is_listening, is_processing, stop_event, tts_stop_event,
                   tts, say_count, audio_open, workers, captures, shutdowns,
                   events, dropped, exit_seen, genVars, listenVars, clsVars, unitVars,
                  procVars, gui>>

LoopNext ==
    \/ LoopWhile
    \/ LoopBegin
    \/ LoopListenNone
    \/ \E u \in Utterances : LoopListenCommand(u)
    \/ LoopWake
    \/ LoopWakeCommand
    \/ LoopWakeNone
    \/ LoopProcessCommand
    \/ LoopStartWorker
    \/ LoopExitStop
    \/ LoopExitSpeak
    \/ LoopExitJoin

----------------------------------------------------------------------------
(* Manual triggers: manual_voice_input on the UI thread and its            *)
(* capture_input worker.                                                   *)

\* a button of the UI calls manual_voice_input(emergency)
ManualTrigger(emergency) ==
    /\ gui.pc = "idle"
    /\ events < MaxEvents
    /\ events' = events + 1
    /\ gui' = [pc |-> "readProcessing", emergency |-> emergency, ret |-> "none"]
    /\ UNCHANGED <<is_listening, is_processing, stop_event, tts_stop_event,
                   tts_queue, tts, put_count, say_count, audio_open, loop,
                   workers, captures, shutdowns, dropped, exit_seen,
                   genVars, listenVars, clsVars, unitVars, procVars>>

\* if self.is_processing or ...: the left operand is read first, and when
\* it is true the call returns False
ManualReadProcessing ==
    /\ gui.pc = "readProcessing"
    /\ gui' = IF is_processing THEN GuiIdle("False")
                               ELSE [gui EXCEPT !.pc = "readListening"]
    /\ UNCHANGED <<is_listening, is_processing, stop_event, tts_stop_event,
                   tts_queue, tts, put_count, say_count, audio_open, loop,
                   workers, captures, shutdowns, events, dropped, exit_seen,
                   genVars, listenVars, clsVars, unitVars, procVars>>

\* ... or self.is_listening: return False; else start a capture_input
\* thread and return True
ManualReadListening ==
    /\ gui.pc = "readListening"
    /\ IF is_listening
       THEN /\ gui' = GuiIdle("False")
            /\ UNCHANGED captures
       ELSE /\ gui' = GuiIdle("True")
            /\ captures' = Add(captures, [pc |-> "begin", emergency |-> gui.emergency])
    /\ UNCHANGED <<is_listening, is_processing, stop_event, tts_stop_event,
                   tts_queue, tts, put_count, say_count, audio_open, loop,
                   workers, shutdowns, events, dropped, exit_seen,
                   genVars, listenVars, clsVars, unitVars, procVars>>

\* capture_input: self.is_listening = True, then the call of listen
CaptureBegin(c) ==
    /\ BagIn(c, captures)
    /\ c.pc = "begin"
    /\ is_listening' = TRUE
    /\ captures' = Add(Remove(captures, c), [c EXCEPT !.pc = "listen"])
    /\ UNCHANGED <<is_processing, stop_event, tts_stop_event, tts_queue, tts,
                   put_count, say_count, audio_open, loop, workers, shutdowns,
                   events, dropped, exit_seen, genVars, listenVars, clsVars, unitVars,
                  procVars, gui>>

\* capture_input: listen returned None; self.is_listening = False and the
\* worker ends
CaptureListenNone(c) ==
    /\ BagIn(c, captures)
    /\ c.pc = "listen"
    /\ is_listening' = FALSE
    /\ captures' = Remove(captures, c)
    /\ UNCHANGED <<is_processing, stop_event, tts_stop_event, tts_queue, tts,
                   put_count, say_count, audio_open, loop, workers, shutdowns,
                   events, dropped, exit_seen, genVars, listenVars, clsVars, unitVars,
                  procVars, gui>>

\* capture_input: listen returned a command; self.is_listening = False,
\* then process_command(command, emergency)
CaptureListenCommand(c) ==
    /\ BagIn(c, captures)
    /\ c.pc = "listen"
    /\ CanHear
    /\ events' = events + 1
    /\ is_listening' = FALSE
    /\ captures' = Add(Remove(captures, c), [c EXCEPT !.pc = "pcmd"])
    /\ UNCHANGED <<is_processing, stop_event, tts_stop_event, tts_queue, tts,
                   put_count, say_count, audio_open, loop, workers, shutdowns,
                   dropped, exit_seen, genVars, listenVars, clsVars, unitVars,
                  procVars, gui>>

\* process_command on the capture worker, the busy check
CaptureProcessCommand(c) ==
    /\ BagIn(c, captures)
    /\ c.pc = "pcmd"
    /\ IF ProcessCommandBusy
       THEN /\ dropped' = dropped + 1
            /\ captures' = Remove(captures, c)
       ELSE /\ UNCHANGED dropped
            /\ captures' = Add(Remove(captures, c), [c EXCEPT !.pc = "pcmdStart"])
    /\ UNCHANGED <<is_listening, is_processing, stop_event, tts_stop_event,
                   tts_queue, tts, put_count, say_count, audio_open, loop,
                   workers, shutdowns, events, exit_seen,
                   genVars, listenVars, clsVars, unitVars, procVars, gui>>

\* process_command on the capture worker, past the check
CaptureStartWorker(c) ==
    /\ BagIn(c, captures)
    /\ c.pc = "pcmdStart"
    /\ StartWorker(c.emergency)
    /\ captures' = Remove(captures, c)
    /\ UNCHANGED <<is_listening, stop_event, tts_stop_event, tts_queue, tts,
                   put_count, say_count, audio_open, loop, shutdowns, events, dropped, exit_seen, genVars, listenVars, clsVars, unitVars,
                  procVars, gui>>

CaptureNext ==
    \E c \in BagToSet(captures) :
        \/ CaptureBegin(c)
        \/ CaptureListenNone(c)
        \/ CaptureListenCommand(c)
        \/ CaptureProcessCommand(c)
        \/ CaptureStartWorker(c)

----------------------------------------------------------------------------
(* Shutdown from the UI: quit_app starts a thread that runs                *)
(* EnhancedSurvivalAssistant.shutdown, which ends in AudioManager.shutdown. *)
(* A thread's log lists what it has done so far.                           *)

\* quit_app: threading.Thread(target=shutdown_thread).start()
QuitApp ==
    /\ events < MaxEvents
    /\ events' = events + 1
    /\ shutdowns' = Add(shutdowns, [pc |-> "stop", log |-> <<>>])
    /\ UNCHANGED <<is_listening, is_processing, stop_event, tts_stop_event,
                   tts_queue, tts, put_count, say_count, audio_open, loop,
                   workers, captures, dropped, exit_seen,
                   genVars, listenVars, clsVars, unitVars, procVars, gui>>

\* the thread s moves to pc, having done what steps lists
Advance(s, pc, steps) ==
    shutdowns' = Add(Remove(shutdowns, s), [pc |-> pc, log |-> s.log \o steps])

\* shutdown: self._stop_event.set()
ShutdownStop(s) ==
    /\ BagIn(s, shutdowns)
    /\ s.pc = "stop"
    /\ stop_event' = TRUE
    /\ Advance(s, "speak", <<"stop">>)
    /\ UNCHANGED <<is_listening, is_processing, tts_stop_event, tts_queue,
                   tts, put_count, say_count, audio_open, loop, workers,
                   captures, events, dropped, exit_seen,
                   genVars, listenVars, clsVars, unitVars, procVars, gui>>

\* shutdown: self.speak(farewell)
ShutdownSpeak(s) ==
    /\ BagIn(s, shutdowns)
    /\ s.pc = "speak"
    /\ Speak("farewell")
    /\ Advance(s, "joinLoop", IF tts_stop_event THEN <<>> ELSE <<"farewell">>)
    /\ UNCHANGED <<is_listening, is_processing, stop_event, tts_stop_event,
                   tts, say_count, audio_open, loop, workers, captures, events, dropped, exit_seen, genVars, listenVars, clsVars, unitVars,
                  procVars, gui>>

\* shutdown: if main_thread.is_alive(): main_thread.join(timeout=2); the
\* join returns when the loop has ended or when the two seconds are over.
\* Then AudioManager.shutdown: self._tts_stop_event.set()
ShutdownJoinLoop(s) ==
    /\ BagIn(s, shutdowns)
    /\ s.pc = "joinLoop"
    /\ tts_stop_event' = TRUE
    /\ Advance(s, "sentinel", IF loop.pc # "done" THEN <<"joinLoop", "ttsStop">>
                                                  ELSE <<"ttsStop">>)
    /\ UNCHANGED <<is_listening, is_processing, stop_event, tts_queue, tts,
                   put_count, say_count, audio_open, loop, workers, captures,
                   events, dropped, exit_seen, genVars, listenVars, clsVars, unitVars,
                  procVars, gui>>

\* a shutdown that closes the capture stream before it deals with the worker
ShutdownReleasesFirst(s) ==
    /\ BagIn(s, shutdowns)
    /\ s.pc = "sentinel"
    /\ audio_open' = FALSE
    /\ IF tts.pc # "exited"
       THEN /\ tts_queue' = Append(tts_queue, Sentinel)
            /\ Advance(s, "done", <<"release", "sentinel", "joinTts">>)
       ELSE /\ UNCHANGED tts_queue
            /\ Advance(s, "done", <<"release">>)
    /\ UNCHANGED <<is_listening, is_processing, stop_event, tts_stop_event,
                   tts, put_count, say_count, loop, workers, captures, events,
                   dropped, exit_seen, genVars, listenVars, clsVars, unitVars,
                  procVars, gui>>

\* AudioManager.shutdown: if tts_thread.is_alive(): tts_queue.put(None) and
\* tts_thread.join(timeout=2); else cleanup_audio() at once
ShutdownSentinel(s) ==
    /\ BagIn(s, shutdowns)
    /\ s.pc = "sentinel"
    /\ IF tts.pc # "exited"
       THEN /\ tts_queue' = Append(tts_queue, Sentinel)
            /\ audio_open' = audio_open
            /\ Advance(s, "joinTts", <<"sentinel">>)
       ELSE /\ UNCHANGED tts_queue
            /\ audio_open' = FALSE
            /\ Advance(s, "done", <<"release">>)
    /\ UNCHANGED <<is_listening, is_processing, stop_event, tts_stop_event,
                   tts, put_count, say_count, loop, workers, captures, events, dropped, exit_seen, genVars, listenVars, clsVars, unitVars,
                  procVars, gui>>

\* AudioManager.shutdown: the join returns when the worker has ended or when
\* the two seconds are over, then self.cleanup_audio() stops and closes the
\* stream
ShutdownJoinTts(s) ==
    /\ BagIn(s, shutdowns)
    /\ s.pc = "joinTts"
    /\ audio_open' = FALSE
    /\ Advance(s, "done", <<"joinTts", "release">>)
    /\ UNCHANGED <<is_listening, is_processing, stop_event, tts_stop_event,
                   tts_queue, tts, put_count, say_count, loop, workers,
                   captures, events, dropped, exit_seen,
                   genVars, listenVars, clsVars, unitVars, procVars, gui>>

ShutdownNext ==
    \E s \in BagToSet(shutdowns) :
        \/ ShutdownStop(s)
        \/ ShutdownSpeak(s)
        \/ ShutdownJoinLoop(s)
        \/ ShutdownSentinel(s)
        \/ ShutdownJoinTts(s)

\* what the user does at the UI
GuiNext ==
    \/ \E emergency \in BOOLEAN : ManualTrigger(emergency)
    \/ ManualReadProcessing
    \/ ManualReadListening
    \/ QuitApp

----------------------------------------------------------------------------
(* The assistant. *)

Next ==
    \/ LoopNext
    \/ TtsNext
    \/ WorkerNext
    \/ CaptureNext
    \/ ShutdownNext
    \/ GuiNext

Spec == Init /\ [][Next]_vars

\* Threads are scheduled fairly: a thread that can take a step takes one.
\* The user's actions at the UI and what the recognizer yields are free.
FairSpec ==
    /\ Spec
    /\ WF_vars(LoopNext)
    /\ WF_vars(TtsNext)
    /\ WF_vars(WorkerNext)
    /\ WF_vars(CaptureNext)
    /\ WF_vars(ShutdownNext)
    /\ WF_vars(ManualReadProcessing \/ ManualReadListening)

----------------------------------------------------------------------------
(* One completion call on its own: the outcomes of the attempts are the    *)
(* input, the call is applied once.                                        *)

InitGen ==
    /\ InitAssistant
    /\ gen_in \in AttemptOutcomes
    /\ gen_out = NoCall
    /\ InitNoListen
    /\ InitNoCls
    /\ InitNoUnits

GenCall ==
    /\ gen_out = NoCall
    /\ gen_out' = generate_response(gen_in)
    /\ UNCHANGED <<is_listening, is_processing, stop_event, tts_stop_event,
                   tts_queue, tts, put_count, say_count, audio_open, loop,
                   workers, captures, shutdowns, events, dropped, exit_seen,
                   gen_in, listenVars, clsVars, unitVars, procVars, gui>>

SpecGen == InitGen /\ [][GenCall]_vars

----------------------------------------------------------------------------
(* The loop with an iteration that can fail: listening_callback or listen  *)
(* raises inside the try block.                                            *)

\* an exception between self.is_listening = True and the return of listen:
\* is_listening stays set and the except branch runs
LoopListenRaise ==
    /\ loop.pc = "listen"
    /\ LoopExcept
    /\ UNCHANGED <<is_listening, is_processing, stop_event, tts_stop_event,
                   tts, say_count, audio_open, workers, captures, shutdowns,
                   events, dropped, exit_seen, genVars, listenVars, clsVars, unitVars,
                  procVars,
                   gui>>

SpecFaults == Init /\ [][Next \/ LoopListenRaise]_vars

\* process_in_thread: an exception inside the try block before the speak
\* call (status_callback or generate_response raising); the except branch
\* speaks and the finally block follows
WorkerRaise(w) ==
    /\ BagIn(w, workers)
    /\ w.pc = "consult"
    /\ Speak("difficulties")
    /\ workers' = Add(Remove(workers, w), [w EXCEPT !.pc = "finally"])
    /\ UNCHANGED <<is_listening, is_processing, stop_event, tts_stop_event,
                   tts, say_count, audio_open, loop, captures, shutdowns,
                   events, dropped, exit_seen, genVars, listenVars, clsVars,
                   unitVars, procVars, gui>>

SpecWorkerFaults ==
    Init /\ [][Next \/ \E w \in BagToSet(workers) : WorkerRaise(w)]_vars

\* a speech worker that ends when the synthesis engine raises
TtsSayRaiseExits ==
    /\ tts.pc = "say"
    /\ tts' = [pc |-> "exited", cur |-> Sentinel]
    /\ tts_failed' = TRUE
    /\ UNCHANGED <<is_listening, is_processing, stop_event, tts_stop_event,
                   tts_queue, put_count, say_count, audio_open, loop, workers,
                   captures, shutdowns, events, dropped, exit_seen, genVars,
                   listenVars, clsVars, unitVars, exited, gui>>

\* say(text) or runAndWait() raises: except Exception logs the error and
\* the while loop goes round
TtsSayRaise ==
    /\ tts.pc = "say"
    /\ tts' = [pc |-> "while", cur |-> Sentinel]
    /\ tts_failed' = TRUE
    /\ UNCHANGED <<is_listening, is_processing, stop_event, tts_stop_event,
                   tts_queue, put_count, say_count, audio_open, loop, workers,
                   captures, shutdowns, events, dropped, exit_seen, genVars,
                   listenVars, clsVars, unitVars, exited, gui>>

\* the speech worker with an engine that can fail, and the threads that
\* call speak: the loop, the workers it starts and the shutdown threads
SpecTtsFaults ==
    Init /\ [][LoopNext \/ TtsNext \/ WorkerNext \/ ShutdownNext \/ QuitApp
                    \/ TtsSayRaise]_vars

----------------------------------------------------------------------------
(* SIGINT or SIGTERM.  setup_signal_handlers installs signal_handler, which *)
(* logs and calls sys.exit(0): SystemExit is raised in the main thread,    *)
(* inside root.mainloop(); main catches KeyboardInterrupt and Exception,   *)
(* SystemExit is neither, so the interpreter ends.  Every thread of the    *)
(* assistant is a daemon thread and stops where it is.                     *)

SignalHandler ==
    /\ exited = NotExited
    /\ exited' = [by |-> "signal"]
    /\ UNCHANGED <<is_listening, is_processing, stop_event, tts_stop_event,
                   tts_queue, tts, put_count, say_count, audio_open, loop,
                   workers, captures, shutdowns, events, dropped, exit_seen,
                   genVars, listenVars, clsVars, unitVars, tts_failed, gui>>

\* the assistant runs until the process ends
SpecSignal == Init /\ [][(exited = NotExited /\ Next) \/ SignalHandler]_vars

----------------------------------------------------------------------------
(* The assistant from the moment a first manual trigger has been accepted: *)
(* manual_voice_input has started its capture_input thread and returned    *)
(* True, and nothing else has happened yet.                                *)

InitCapturing ==
    /\ is_listening = FALSE
    /\ is_processing = FALSE
    /\ stop_event = FALSE
    /\ tts_stop_event = FALSE
    /\ tts_queue = <<[id |-> 1, text |-> "welcome"]>>
    /\ tts = [pc |-> "while", cur |-> Sentinel]
    /\ put_count = 1
    /\ say_count = 0
    /\ audio_open = TRUE
    /\ loop = [pc |-> "while", urgent |-> FALSE, errors |-> 0,
               intent |-> "none", streak |-> 0]
    /\ workers = EmptyBag
    /\ captures \in {SetToBag({[pc |-> "begin", emergency |-> e]}) : e \in BOOLEAN}
    /\ shutdowns = EmptyBag
    /\ events = 0
    /\ dropped = 0
    /\ exit_seen = FALSE
    /\ gui = GuiIdle("True")
    /\ tts_failed = FALSE
    /\ exited = NotExited
    /\ InitNoGen
    /\ InitNoListen
    /\ InitNoCls
    /\ InitNoUnits

SpecCapturing == InitCapturing /\ [][Next]_vars

----------------------------------------------------------------------------
(* One call of listen on its own: the frames and the passing of time are   *)
(* the input.                                                              *)

\* while time.time() - start_time < timeout, else the return after the loop
ListenWhile ==
    /\ lis.pc = "while"
    /\ lis' = IF now < timeout THEN [lis EXCEPT !.pc = "read"] ELSE AtTimeout(lis)
    /\ UNCHANGED <<is_listening, is_processing, stop_event, tts_stop_event,
                   tts_queue, tts, put_count, say_count, audio_open, loop,
                   workers, captures, shutdowns, events, dropped, exit_seen,
                   genVars, clsVars, unitVars,
                  procVars, gui, lis_seen, now, stream>>

\* stream.read returns a frame or raises, and the body handles it
ListenRead(f) ==
    /\ lis.pc = "read"
    /\ lis' = OnFrame(lis, f, now)
    /\ lis_seen' = Seen(lis_seen, f, now)
    /\ UNCHANGED <<is_listening, is_processing, stop_event, tts_stop_event,
                   tts_queue, tts, put_count, say_count, audio_open, loop,
                   workers, captures, shutdowns, events, dropped, exit_seen,
                   genVars, clsVars, unitVars, procVars, gui, now, stream>>

\* half a second passes while the call runs
Tick ==
    /\ lis.pc # "returned"
    /\ now <= timeout
    /\ now' = now + 1
    /\ UNCHANGED <<is_listening, is_processing, stop_event, tts_stop_event,
                   tts_queue, tts, put_count, say_count, audio_open, loop,
                   workers, captures, shutdowns, events, dropped, exit_seen,
                   genVars, clsVars, unitVars,
                  procVars, gui, lis, lis_seen, stream>>

ListenNext == ListenWhile \/ \E f \in Frames : ListenRead(f)

InitListen ==
    /\ InitAssistant
    /\ InitNoGen
    /\ InitNoListen
    /\ InitNoCls
    /\ InitNoUnits

SpecListen == InitListen /\ [][ListenNext \/ Tick]_vars

\* the thread in listen is scheduled, stream.read comes back, time passes
FairSpecListen == SpecListen /\ WF_vars(ListenNext) /\ WF_vars(Tick)

----------------------------------------------------------------------------
(* One call of listen from its first line: the stream it finds is an input *)
(* too.                                                                    *)

Streams == {"active", "inactive", "missing"}

\* listen has been called and has executed nothing yet
ListenCalled == [ListenStart EXCEPT !.pc = "enter"]

InitListenEntry ==
    /\ InitAssistant
    /\ InitNoGen
    /\ lis = ListenCalled
    /\ lis_seen = SeenNothing
    /\ now = 0
    /\ stream \in Streams
    /\ InitNoCls
    /\ InitNoUnits

\* a listen that goes on to its loop whatever the stream
ListenEnterUnchecked ==
    /\ lis.pc = "enter"
    /\ lis' = ListenStart
    /\ UNCHANGED <<is_listening, is_processing, stop_event, tts_stop_event,
                   tts_queue, tts, put_count, say_count, audio_open, loop,
                   workers, captures, shutdowns, events, dropped, exit_seen,
                   genVars, clsVars, unitVars, procVars, gui, lis_seen, now,
                   stream>>

\* if not self.stream or not self.stream.is_active(): return None; then
\* the locals are set
ListenEnter ==
    /\ lis.pc = "enter"
    /\ lis' = IF stream = "active" THEN ListenStart ELSE Return(lis, None, 201)
    /\ UNCHANGED <<is_listening, is_processing, stop_event, tts_stop_event,
                   tts_queue, tts, put_count, say_count, audio_open, loop,
                   workers, captures, shutdowns, events, dropped, exit_seen,
                   genVars, clsVars, unitVars, procVars, gui, lis_seen, now,
                   stream>>

\* the clock of the call starts at start_time = time.time(), line 203
SpecListenEntry ==
    InitListenEntry /\ [][ListenEnter \/ ListenNext \/ (lis.pc # "enter" /\ Tick)]_vars

----------------------------------------------------------------------------
(* One classification on its own: the command and the configured wake      *)
(* phrases are the input.                                                  *)

InitClassify ==
    /\ InitAssistant
    /\ InitNoGen
    /\ InitNoListen
    /\ cls_in \in [command : Commands, wake_words : WakeConfigs]
    /\ cls_out = "pending"
    /\ InitNoUnits

\* the if/elif chain applied to the command
ClsCall ==
    /\ cls_out = "pending"
    /\ cls_out' = Classify(Matched(cls_in.command, cls_in.wake_words))
    /\ UNCHANGED <<is_listening, is_processing, stop_event, tts_stop_event,
                   tts_queue, tts, put_count, say_count, audio_open, loop,
                   workers, captures, shutdowns, events, dropped, exit_seen,
                   genVars, listenVars, gui, cls_in, unitVars, procVars>>

SpecClassify == InitClassify /\ [][ClsCall]_vars

----------------------------------------------------------------------------
(* validate_config on its own: the configuration documents are the input.  *)
(* load_config calls it, and the module-level DEFAULT_CONFIG lives as long *)
(* as the process, so a call starts from the DEFAULT_CONFIG the calls      *)
(* before it have left.                                                    *)

InitConfig ==
    /\ InitAssistant
    /\ InitNoGen
    /\ InitNoListen
    /\ InitNoCls
    /\ InitNoUnits

\* validated = DEFAULT_CONFIG.copy(); deep_update(validated, config)
validate_config(config) ==
    /\ cfg.calls < MaxMerges
    /\ cfg' = [defaults |-> SharedAfter(cfg.defaults, config),
               calls    |-> cfg.calls + 1,
               user     |-> config,
               base     |-> cfg.defaults,
               result   |-> deep_update(cfg.defaults, config)]
    /\ UNCHANGED <<is_listening, is_processing, stop_event, tts_stop_event,
                   tts_queue, tts, put_count, say_count, audio_open, loop,
                   workers, captures, shutdowns, events, dropped, exit_seen,
                   genVars, listenVars, clsVars, clean_in, clean_out,
                   procVars, gui>>

SpecConfig == InitConfig /\ [][\E config \in UserConfigs : validate_config(config)]_vars

----------------------------------------------------------------------------
(* _clean_response on its own: the response text is the input.             *)
(* generate_response passes it the response of the service stripped of     *)
(* surrounding white space, and only when that is not empty.               *)

Responses ==
    {text \in Texts : /\ text # <<>>
                      /\ Head(text) \notin {" ", NewLine}
                      /\ text[Len(text)] \notin {" ", NewLine}}

InitClean ==
    /\ InitAssistant
    /\ InitNoGen
    /\ InitNoListen
    /\ InitNoCls
    /\ cfg = NoMerge
    /\ clean_in \in Responses
    /\ clean_out = NotCleaned

\* return self._clean_response(result)
CleanCall ==
    /\ clean_out = NotCleaned
    /\ clean_out' = _clean_response(clean_in)
    /\ UNCHANGED <<is_listening, is_processing, stop_event, tts_stop_event,
                   tts_queue, tts, put_count, say_count, audio_open, loop,
                   workers, captures, shutdowns, events, dropped, exit_seen,
                   genVars, listenVars, clsVars, cfg, clean_in, procVars,
                   gui>>

SpecClean == InitClean /\ [][CleanCall]_vars

----------------------------------------------------------------------------
(* Properties. *)

\* C1: in every reachable state the flags is_listening and is_processing
\* are not both true.
C1_ListeningExcludesProcessing == ~(is_listening /\ is_processing)

\* C2: at any instant at most one per-command completion worker is
\* outstanding.
C2_AtMostOneWorker == BagCardinality(workers) <= 1

\* C3: no captured input is dropped: no dispatch of an utterance through
\* process_command returns without a completion request for it.
C3_NoInputDropped == dropped = 0

\* C4: under fair scheduling, whenever is_processing is true it becomes
\* false again, and the loop at the top of an iteration (where it makes its
\* back-pressure check) goes on to start a listen unless it ends because
\* stopping was set.
C4_NoDeadlock ==
    /\ is_processing ~> ~is_processing
    /\ (loop.pc = "while") ~> (loop.pc = "listen" \/ (stop_event /\ loop.pc = "done"))

\* the loop is held back by a command in flight
C4_Witness == loop.pc = "while" /\ is_processing /\ ~stop_event

\* how often e occurs in the sequence seq
Count(seq, e) == Cardinality({i \in DOMAIN seq : seq[i] = e})

\* the completion call has returned
GenReturned == gen_out # NoCall

\* C5: when every attempt times out, exactly 3 requests are issued with
\* exactly 2 pauses between them, none after the last, and the call
\* returns none.
C5_TimeoutsExhaustBudget ==
    (GenReturned /\ \A i \in DOMAIN gen_in : gen_in[i] = "timeout")
        => /\ gen_out.result = "none"
           /\ gen_out.trace = <<"request", "sleep", "request", "sleep", "request">>

\* a call whose attempts all timed out has returned
C5_Witness == GenReturned /\ \A i \in DOMAIN gen_in : gen_in[i] = "timeout"

\* attempt k is the first to end the call: the ones before it were retried
FirstEnding(k) ==
    \A j \in 1..(k - 1) : gen_in[j] \in {"empty", "status", "timeout"}

\* C6: a model-not-found response on attempt k ends the call with none and
\* request k is the last thing the call does; when it is the first response
\* exactly 1 request has been issued.
C6_NotFoundIsTerminal ==
    \A k \in DOMAIN gen_in :
        (GenReturned /\ gen_in[k] = "notfound" /\ FirstEnding(k))
            => /\ gen_out.result = "none"
               /\ Count(gen_out.trace, "request") = k
               /\ gen_out.trace[Len(gen_out.trace)] = "request"

\* a call has returned whose second attempt got model-not-found after a
\* first attempt that was retried
C6_Witness ==
    GenReturned /\ gen_in[1] = "status" /\ gen_in[2] = "notfound"

\* the speech items waiting in the queue, without the sentinel
Waiting == SelectSeq(tts_queue, LAMBDA item : item # Sentinel)

\* C7: speech items reach the synthesis engine in the order they were put,
\* one at a time, none skipped, reordered or repeated: the item in
\* synthesis is the say_count-th item ever put and the items waiting are
\* the following ones, in order.
C7_SpeechInOrder ==
    /\ tts.pc = "say" => tts.cur.id = say_count
    /\ Len(Waiting) = put_count - say_count
    /\ \A i \in DOMAIN Waiting : Waiting[i].id = say_count + i

\* a later item is in synthesis while others wait behind it
C7_Witness == tts.pc = "say" /\ tts.cur.id >= 2 /\ Len(Waiting) >= 2

\* the elements of a sequence
Range(seq) == {seq[i] : i \in DOMAIN seq}

\* C8: every shutdown puts the sentinel and the speech worker dequeues it:
\* a finished shutdown has put the sentinel, and once the worker has ended
\* no sentinel is left in the queue.
C8_SentinelDrained ==
    /\ \A s \in BagToSet(shutdowns) : s.pc = "done" => "sentinel" \in Range(s.log)
    /\ tts.pc = "exited" => Sentinel \notin Range(tts_queue)

\* C9: when the loop has classified an utterance as Exit and has ended, the
\* shutdown sequence has run to its end: stopping is set, AudioManager.shutdown
\* has set the speech stop event (it puts the sentinel after that) and the
\* capture stream is released.
C9_ExitRunsShutdown ==
    (exit_seen /\ loop.pc = "done")
        => (stop_event /\ tts_stop_event /\ ~audio_open)

\* C10 as stated: a finished UI shutdown has set stopping, put the farewell,
\* joined the loop, sent the sentinel, joined the speech worker and released
\* the capture stream, in this order.
C10_AllStepsInOrder ==
    \A s \in BagToSet(shutdowns) :
        s.pc = "done" =>
            SelectSeq(s.log, LAMBDA e : e # "ttsStop")
                = <<"stop", "farewell", "joinLoop", "sentinel", "joinTts", "release">>

\* the steps of a UI shutdown that puts the farewell (f), joins the loop (j)
\* and sends the sentinel to the speech worker and joins it (t)
ShutdownSteps(f, j, t) ==
    <<"stop">>
    \o (IF f THEN <<"farewell">> ELSE <<>>)
    \o (IF j THEN <<"joinLoop">> ELSE <<>>)
    \o <<"ttsStop">>
    \o (IF t THEN <<"sentinel", "joinTts">> ELSE <<>>)
    \o <<"release">>

\* C10, amended: a UI shutdown sets stopping, then puts the farewell unless
\* the speech stop event is already set, then joins the loop unless the
\* loop has ended, then sets the speech stop event and sends the sentinel
\* to the speech worker and joins it unless the worker has ended, and only
\* then releases the capture stream.
C10_GuardedStepsInOrder ==
    \A s \in BagToSet(shutdowns) :
        /\ s.pc = "done" =>
              \E f, j, t \in BOOLEAN : s.log = ShutdownSteps(f, j, t)
        /\ (s.pc \notin {"stop", "speak"} /\ "farewell" \notin Range(s.log))
              => tts_stop_event
        /\ (s.pc \in {"sentinel", "joinTts", "done"} /\ "joinLoop" \notin Range(s.log))
              => loop.pc = "done"
        /\ (s.pc \in {"joinTts", "done"} /\ "sentinel" \notin Range(s.log))
              => tts.pc = "exited"
        /\ ~audio_open => \E d \in BagToSet(shutdowns) : d.pc = "done"

\* a UI shutdown has finished that took every step
C10_Witness ==
    \E s \in BagToSet(shutdowns) :
        s.pc = "done" /\ s.log = ShutdownSteps(TRUE, TRUE, TRUE)

\* the UI thread returns from manual_voice_input in this step
ManualReturns == gui.pc # "idle" /\ gui'.pc = "idle"

\* C11: a manual trigger that is decided while is_processing or is_listening
\* is true returns False, starts no capture worker and changes neither flag
\* nor the speech queue; one decided while both are false returns True and
\* starts exactly one capture worker.
C11_BusyRejectedIdleAccepted ==
    [][ManualReturns =>
          /\ UNCHANGED <<is_listening, is_processing, tts_queue>>
          /\ IF is_processing \/ is_listening
             THEN gui'.ret = "False" /\ UNCHANGED captures
             ELSE /\ gui'.ret = "True"
                  /\ captures' = Add(captures, [pc |-> "begin",
                                                emergency |-> gui.emergency])]_vars

\* the loop has ended with the fatal announcement
FatalAnnounced == loop.pc = "done" /\ loop.errors >= max_errors

\* C12: the loop ends with the fatal announcement only after max_errors
\* failing iterations in a row: an iteration that completes without an
\* exception starts the count again.
C12_FatalOnlyAfterFiveInARow == FatalAnnounced => loop.streak >= max_errors

\* the last pass of the call got a final result whose trimmed text is not
\* empty
GotFinal ==
    lis_seen.frame.kind = "final" /\ Strip(lis_seen.frame.text) # <<>>

\* the call has returned the text of that final result, trimmed and in
\* lower case, from the body of the loop
ReturnedFinal ==
    /\ lis.pc = "returned"
    /\ lis.line = 217
    /\ lis.ret = Some(Lower(Strip(lis_seen.frame.text)))

\* C13 as stated: a non-empty final result at an elapsed time of at least
\* 0.5 s is returned at once, trimmed and in lower case.
C13_FinalAtHalfSecondReturned ==
    (GotFinal /\ lis_seen.at >= min_speech_duration) => ReturnedFinal

\* C13, amended: a non-empty final result at an elapsed time of more than
\* 0.5 s is returned at once, trimmed and in lower case, without waiting for
\* the rest of the timeout.
C13_FinalAfterHalfSecondReturned ==
    (GotFinal /\ lis_seen.at > min_speech_duration) => ReturnedFinal

\* a padded upper-case final result has been returned before the timeout
C13_Witness ==
    /\ ReturnedFinal
    /\ lis_seen.frame.text = <<" ", "G", "o", " ">>
    /\ now < timeout

\* C14: when a non-empty partial has been followed by an empty one and the
\* partial has stayed empty for more than 2 seconds, with the timeout not
\* yet over, listen returns that last non-empty partial.
C14_SilenceEndsCall ==
    (/\ lis_seen.frame.kind = "partial"
     /\ lis_seen.quiet_set
     /\ lis_seen.at - lis_seen.quiet_at > silence_limit
     /\ lis_seen.at < timeout)
        => /\ lis.pc = "returned"
           /\ lis.line = 233
           /\ lis.ret = Some(Lower(lis_seen.heard))

\* C15: a call that ends at its timeout returns the last non-empty final or
\* partial text it was given, and None only if it was given none.
C15_TimeoutReturnsLastText ==
    (lis.pc = "returned" /\ lis.line = 238)
        => lis.ret = IF lis_seen.best # <<>> THEN Some(Lower(lis_seen.best))
                                            ELSE None

\* C16: a failed frame read does not end the call (a call whose last read
\* failed has returned only after the loop, at the timeout); a qualifying
\* final result that comes after a failed read is returned; and the call
\* ends, also when every read fails.
C16_FailedReadsDoNotEndCall ==
    /\ []((lis.pc = "returned" /\ lis_seen.frame.kind = "fail")
             => (lis.line = 238 /\ now >= timeout))
    /\ []((lis_seen.failed /\ GotFinal /\ lis_seen.at > min_speech_duration)
             => ReturnedFinal)
    /\ <>(lis.pc = "returned")

\* a final result has been returned by a call in which a read had failed
C16_Witness == lis_seen.failed /\ ReturnedFinal /\ now < timeout

\* the classification has been made
Classified == cls_out # "pending"

\* the command contains a phrase of the list
Has(words) == AnyOf(cls_in.command, words)

\* C17: every command gets exactly one intent, the first that matches in
\* the order WakeWord, Emergency, Question, Exit, else Unclassified; a
\* command with a configured wake phrase and an exit word is WakeWord, and
\* one with an exit word and no configured wake phrase, emergency word or
\* question word is Exit.
C17_FirstMatchWins ==
    Classified =>
        LET w == Has(cls_in.wake_words)
            e == Has(EmergencyWords)
            q == Has(QuestionWords)
            x == Has(ExitWords)
        IN  /\ cls_out \in {"WakeWord", "Emergency", "Question", "Exit", "Unclassified"}
            /\ (cls_out = "WakeWord") <=> w
            /\ (cls_out = "Emergency") <=> (~w /\ e)
            /\ (cls_out = "Question") <=> (~w /\ ~e /\ q)
            /\ (cls_out = "Exit") <=> (~w /\ ~e /\ ~q /\ x)
            /\ (cls_out = "Unclassified") <=> (~w /\ ~e /\ ~q /\ ~x)
            /\ (w /\ x) => cls_out = "WakeWord"

\* "assistant please stop" has been classified Exit under a configuration
\* in which "assistant" is no wake phrase
C17_Witness ==
    /\ Classified
    /\ cls_in.command = <<"assistant", "please", "stop">>
    /\ <<"assistant">> \notin cls_in.wake_words
    /\ cls_out = "Exit"

\* C18: on a WakeWord utterance the loop makes no completion request for
\* the utterance itself, puts the acknowledgement on the speech queue (while
\* speech is not being shut down) and then listens once; an utterance that
\* listen returns goes to process_command as urgent and a completion worker
\* is started for it.
C18_WakeFollowUpDispatched ==
    [][loop' # loop =>
          /\ (loop.pc = "listen" /\ loop'.intent = "WakeWord")
                => (loop'.pc = "wake" /\ UNCHANGED <<workers, is_processing>>)
          /\ loop.pc = "wake"
                => /\ ~tts_stop_event
                        => tts_queue' = Append(tts_queue, [id |-> put_count + 1,
                                                           text |-> "ack"])
                   /\ loop'.pc = "wakeListen"
          /\ (loop.pc = "wakeListen" /\ events' # events)
                => (loop'.pc = "pcmd" /\ loop'.urgent)
          /\ (loop.pc = "pcmd" /\ loop.intent = "WakeWord")
                => loop'.pc = "pcmdStart"
          /\ (loop.pc = "pcmdStart" /\ loop.intent = "WakeWord")
                => workers' = Add(workers, [pc |-> "consult", urgent |-> TRUE])]_vars

\* C19: an utterance classified Unclassified causes no completion request
\* and no speech item, leaves is_processing and the stop event as they are,
\* and the loop is back at the top of its next iteration.
C19_UnclassifiedIgnored ==
    [][(loop.pc = "listen" /\ loop'.intent = "Unclassified")
          => /\ loop'.pc = "while"
             /\ UNCHANGED <<tts_queue, put_count, workers, is_processing,
                            stop_event>>]_vars

\* the loop has just passed over an utterance without a keyword
C19_Witness == loop.pc = "while" /\ loop.intent = "Unclassified"

\* C20: an attempt that fails with an error that is not a timeout, before
\* the last attempt, is followed by another request.
C20_ConnectivityRetried ==
    \A k \in DOMAIN gen_in :
        (GenReturned /\ gen_in[k] = "error" /\ FirstEnding(k) /\ k < max_retries)
            => Count(gen_out.trace, "request") > k

\* the attempts before attempt k all failed with a status other than 404
StatusOnlyBefore(k) == \A j \in 1..(k - 1) : gen_in[j] = "status"

\* C21: a failed status other than model-not-found does not end the
\* completion call: before the last attempt it is followed by another
\* request, a success after failed statuses is returned, three failed
\* statuses give none after exactly 3 requests, and no call issues more
\* than 3 requests.
C21_StatusRetriedWithinBudget ==
    GenReturned =>
        /\ Count(gen_out.trace, "request") <= max_retries
        /\ \A k \in DOMAIN gen_in :
              /\ (gen_in[k] = "status" /\ FirstEnding(k) /\ k < max_retries)
                    => Count(gen_out.trace, "request") > k
              /\ (gen_in[k] = "ok" /\ StatusOnlyBefore(k))
                    => /\ gen_out.result = "text"
                       /\ Count(gen_out.trace, "request") = k
        /\ (\A k \in DOMAIN gen_in : gen_in[k] = "status")
              => /\ gen_out.result = "none"
                 /\ gen_out.trace = <<"request", "request", "request">>

\* two failed statuses, then a success on the last attempt, returned
C21_Witness ==
    /\ GenReturned
    /\ gen_in = <<"status", "status", "ok">>
    /\ gen_out.result = "text"

\* what process_in_thread is to say for an outcome of the completion call
ExpectedItem(outcome, urgent) ==
    CASE outcome = "text"   -> "response"
      [] outcome = "none"   -> IF urgent THEN "apology_emergency" ELSE "apology"
      [] outcome = "raised" -> "difficulties"

\* the step enqueues exactly one item, with this text, and leaves processing
EnqueuesOne(text) ==
    /\ tts_queue' = Append(tts_queue, [id |-> put_count + 1, text |-> text])
    /\ put_count' = put_count + 1
    /\ UNCHANGED is_processing

\* a worker ends only from its finally block, which clears processing and
\* enqueues nothing
EndsThroughFinally ==
    /\ \A w \in BagToSet(workers) :
          WorkerFinally(w) => /\ w.pc = "finally"
                              /\ ~is_processing'
                              /\ UNCHANGED <<tts_queue, put_count>>
    /\ BagCardinality(workers') < BagCardinality(workers)
          => \E w \in BagToSet(workers) : WorkerFinally(w)

\* C22 as stated: the worker of every accepted command enqueues exactly one
\* speech item, the response when the completion call succeeds and an
\* apology when it yields none or raises, and only then clears processing.
C22_WorkerEnqueuesOneItem ==
    [][/\ \A w \in BagToSet(workers) :
            /\ \A r \in CompletionResults :
                  WorkerRespond(w, r) => EnqueuesOne(ExpectedItem(r, w.urgent))
            /\ WorkerRaise(w) => EnqueuesOne(ExpectedItem("raised", w.urgent))
       /\ EndsThroughFinally]_vars

\* C22, amended: the same, as long as speech has not been shut down; once it
\* has, the worker enqueues nothing and still clears processing.
C22_WorkerEnqueuesOneItemUnlessStopped ==
    [][/\ \A w \in BagToSet(workers) :
            /\ \A r \in CompletionResults :
                  WorkerRespond(w, r) =>
                      IF tts_stop_event
                      THEN UNCHANGED <<tts_queue, put_count, is_processing>>
                      ELSE EnqueuesOne(ExpectedItem(r, w.urgent))
            /\ WorkerRaise(w) =>
                      IF tts_stop_event
                      THEN UNCHANGED <<tts_queue, put_count, is_processing>>
                      ELSE EnqueuesOne(ExpectedItem("raised", w.urgent))
       /\ EndsThroughFinally]_vars

\* a worker whose try block raised has enqueued its apology and is about to
\* clear processing
C22_Witness ==
    /\ is_processing
    /\ \E w \in BagToSet(workers) : w.pc = "finally"
    /\ tts_queue # <<>>
    /\ tts_queue[Len(tts_queue)].text = "difficulties"

\* C23: a synthesis error on one speech item does not stop the speech
\* worker: with errors too the items reach synthesis in the order they were
\* put, none skipped; the worker ends only by dequeuing the sentinel or by
\* finding the speech stop event set at the top of its loop, never by an
\* error; and when it dequeues the sentinel it ends.
C23_SynthesisErrorSurvived ==
    /\ C7_SpeechInOrder
    /\ [][/\ C7_SpeechInOrder'
          /\ (tts.pc # "exited" /\ tts'.pc = "exited")
                => \/ (tts.pc = "get" /\ tts_queue # <<>>
                                      /\ QueueGet(tts_queue) = Sentinel)
                   \/ (tts.pc = "while" /\ tts_stop_event)
          /\ (TtsGet /\ tts_queue # <<>> /\ QueueGet(tts_queue) = Sentinel)
                => tts'.pc = "exited"
          /\ (tts.pc = "say" /\ tts'.pc # "say")
                => (tts'.pc = "while" /\ UNCHANGED <<tts_queue, say_count>>)]_vars

\* after a synthesis error a later item is in synthesis
C23_Witness == tts_failed /\ tts.pc = "say" /\ tts.cur.id >= 2

\* C24: a termination signal runs the shutdown sequence of the UI shutdown
\* action: when the process has ended on a signal, stopping is set, the
\* speech worker has been told to stop and the capture stream is released.
C24_SignalRunsShutdown ==
    exited.by = "signal"
        => /\ stop_event
           /\ tts_stop_event
           /\ ~audio_open

RECURSIVE MergedOver(_, _, _)
\* result has the user's value at every key of user, the value of base at
\* every other key, and the same holds inside a dictionary both have
MergedOver(base, user, result) ==
    /\ DOMAIN result = DOMAIN base \cup DOMAIN user
    /\ \A key \in DOMAIN user :
          IF key \in DOMAIN base /\ base[key].dict /\ user[key].dict
          THEN /\ result[key].dict
               /\ MergedOver(base[key].items, user[key].items, result[key].items)
          ELSE result[key] = user[key]
    /\ \A key \in DOMAIN base \ DOMAIN user : result[key] = base[key]

\* C25: a user configuration merged over the defaults gives, at every key
\* the user document has, the user's value, and at every key it lacks the
\* default value, recursively inside nested objects.  The defaults are
\* DEFAULT_CONFIG as the call finds it, which at the first call of a
\* process is DEFAULT_CONFIG as written in the source.
C25_MergeOverridesPresentKeepsAbsent ==
    /\ cfg.calls = 1 => cfg.base = DEFAULT_CONFIG
    /\ cfg.calls > 0 => MergedOver(cfg.base, cfg.user, cfg.result)

\* a document that overrides the rate alone: the result has the user's rate
\* and the default volume and model name
C25_Witness ==
    /\ cfg.calls = 1
    /\ DOMAIN cfg.user = {"tts_settings"}
    /\ cfg.user["tts_settings"].dict
    /\ DOMAIN cfg.user["tts_settings"].items = {"rate"}
    /\ cfg.result["tts_settings"].items["rate"] = Scalar("user")
    /\ cfg.result["tts_settings"].items["volume"] = Scalar("default")
    /\ cfg.result["model_name"] = Scalar("default")

\* the text has the characters of part next to each other somewhere
Within(part, text) ==
    \E i \in 1..(Len(text) - Len(part) + 1) :
        SubSeq(text, i, i + Len(part) - 1) = part

\* C26: the cleaned output of every response text contains no '*', no
\* newline and no doubled period.
C26_CleanedHasNoMarkup ==
    clean_out # NotCleaned
        => /\ ~Within(<<"*">>, clean_out)
           /\ ~Within(<<NewLine>>, clean_out)
           /\ ~Within(<<".", ".">>, clean_out)

\* C27: from the dispatch of an accepted command until its worker has
\* finished the completion call and enqueued its speech item, processing is
\* true: as long as a worker is consulting the completion service,
\* processing is set.
C27_ProcessingHeldForWorker ==
    (\E w \in BagToSet(workers) : w.pc = "consult") => is_processing

\* the threads inside a call of audio_manager.listen
Listeners ==
    (IF loop.pc \in {"listen", "wakeListen"} THEN 1 ELSE 0)
        + BagCardinality([c \in {k \in BagToSet(captures) : k.pc = "listen"}
                            |-> captures[c]])

\* C28: at any instant at most one listen call is reading the capture
\* stream: the loop's listen, the wake-word follow-up listen and a manual
\* capture never run at the same time.
C28_OneListenerAtATime == Listeners <= 1

\* C29: once stopping has been set, no step starts a listen call and no
\* step starts a worker for a completion request.
C29_NothingNewAfterStopping ==
    [][stop_event => /\ Listeners' <= Listeners
                     /\ BagCardinality(workers') <= BagCardinality(workers)]_vars

\* C30: whenever neither the loop nor a manual capture worker is inside a
\* listen call, listening is false, after an iteration that raised an
\* exception and after the loop has ended too.
C30_ListeningOnlyWhileInListen == Listeners = 0 => ~is_listening

\* C32: a merge leaves the default configuration unchanged: DEFAULT_CONFIG
\* is after every merge what the source writes, and a merge of an empty
\* document that follows another merge returns exactly those defaults,
\* nested values included.
C32_MergeLeavesDefaultsUnchanged ==
    /\ cfg.defaults = DEFAULT_CONFIG
    /\ (cfg.calls >= 2 /\ DOMAIN cfg.user = {}) => cfg.result = DEFAULT_CONFIG

\* C33: on every path listen returns none or a non-empty string, never an
\* empty string; when the stream is missing or inactive it returns none
\* from its first statement, having read no frame.
C33_NoneOrNonEmpty ==
    lis.pc = "returned"
        => /\ lis.ret = None \/ (lis.ret.some /\ lis.ret.text # <<>>)
           /\ stream # "active"
                 => /\ lis.ret = None
                    /\ lis.line = 201
                    /\ lis_seen = SeenNothing
                    /\ now = 0

\* a call that found the stream inactive has returned
C33_Witness == lis.pc = "returned" /\ stream = "inactive"

\* C31: every speech item accepted into the queue before the speech worker
\* is told to stop reaches the synthesis engine: when the worker has exited,
\* no accepted item is left in the queue.
C31_NoItemLeftUnspoken == tts.pc = "exited" => Waiting = <<>>

====
